---- MODULE Spec2Model ----
(***************************************************************************)
(* The billing back office of Blog-App: the record store declared in       *)
(* main/models.py (Client, Project, Task, Invoice, Payment, Expense, Note, *)
(* ProjectFile with their on_delete rules and the unique Client.email) and *)
(* the admin callables of main/admin.py (total_invoiced, project_count,    *)
(* is_overdue, export_as_pdf).                                             *)
(*                                                                         *)
(* Text that the code inspects character by character (a project title,    *)
(* a formatted amount, a filename) is a sequence of one-character strings. *)
(* A nullable field holds None (the empty tuple) or Some(v) (a 1-tuple).   *)
(* Money is a DecimalField with two decimal places, held as integer cents. *)
(***************************************************************************)
EXTENDS Integers, Sequences, FiniteSets, TLC

VARIABLES clients, projects, tasks, invoices, payments, expenses, notes,
          files, nextId, today, result, export

store == <<clients, projects, tasks, invoices, payments, expenses, notes,
           files, nextId>>

vars == <<clients, projects, tasks, invoices, payments, expenses, notes,
          files, nextId, today, result, export>>

(***************************************************************************)
(* Bounds of the model.                                                    *)
(***************************************************************************)
MaxClients == 2

MaxProjects == 2

MaxInvoices == 2

MaxChildren == 1

MaxDay == 2

(***************************************************************************)
(* Nullable values and tables.                                             *)
(***************************************************************************)
None == <<>>

Some(v) == <<v>>

Empty == [x \in {} |-> x]

Without(table, ids) == [x \in (DOMAIN table) \ ids |-> table[x]]

(***************************************************************************)
(* Field values of main/models.py.                                         *)
(***************************************************************************)
InvoiceStatuses == {"Unpaid", "Partially Paid", "Paid", "Overdue"}

TaskStatuses == {"Todo", "In Progress", "Done"}

Client(email, company) == [email |-> email, company |-> company]

Project(client, title, description) ==
    [client |-> client, title |-> title, description |-> description]

Task(project, status, due_date) ==
    [project |-> project, status |-> status, due_date |-> due_date]

Invoice(project, amount, status, inotes, due_date) ==
    [project |-> project, amount |-> amount, status |-> status,
     notes |-> inotes, due_date |-> due_date]

Payment(invoice, amount) == [invoice |-> invoice, amount |-> amount]

Expense(project, amount) == [project |-> project, amount |-> amount]

Note(project) == [project |-> project]

ProjectFile(project) == [project |-> project]

(***************************************************************************)
(* What a write reports: a save or delete that went through, or a write    *)
(* the store rejected (a unique or foreign-key violation) naming the       *)
(* offending field.  A delete reports how many rows it removed and how     *)
(* many SET_NULL references it cleared.                                    *)
(***************************************************************************)
Saved == [op |-> "save", status |-> "ok", field |-> "", deleted |-> 0, cleared |-> 0]

Rejected(f) ==
    [op |-> "save", status |-> "rejected", field |-> f, deleted |-> 0, cleared |-> 0]

Deleted(op, n, k) ==
    [op |-> op, status |-> "ok", field |-> "", deleted |-> n, cleared |-> k]

(***************************************************************************)
(* An export request before it starts: nothing selected, nothing read,    *)
(* nothing returned.                                                       *)
(***************************************************************************)
Idle ==
    [pc |-> "idle", selected |-> {}, count |-> 0, invoice |-> None,
     project |-> None, client |-> None, message |-> "", error |-> "",
     response |-> None]

(***************************************************************************)
(* The state after the migrations have run: every table empty.             *)
(***************************************************************************)
Init ==
    /\ clients = Empty
    /\ projects = Empty
    /\ tasks = Empty
    /\ invoices = Empty
    /\ payments = Empty
    /\ expenses = Empty
    /\ notes = Empty
    /\ files = Empty
    /\ nextId = [client |-> 1, project |-> 1, task |-> 1, invoice |-> 1,
                 payment |-> 1, expense |-> 1, note |-> 1, file |-> 1]
    /\ today = 0
    /\ result = Saved
    /\ export = Idle

(***************************************************************************)
(* Client: email is unique (models.py line 9).                             *)
(***************************************************************************)
EmailHeld(email, self) ==
    \E c \in DOMAIN clients : c /= self /\ clients[c].email = email

\* Fault variant: CreateClient with the unique check on email left out.
CreateClientNoUnique(email, company) ==
    /\ nextId.client <= MaxClients
    /\ clients' = clients @@ (nextId.client :> Client(email, company))
    /\ nextId' = [nextId EXCEPT !.client = @ + 1]
    /\ result' = Saved
    /\ UNCHANGED <<projects, tasks, invoices, payments, expenses, notes, files,
                   today, export>>

CreateClient(email, company) ==
    IF EmailHeld(email, 0)
    THEN /\ result' = Rejected("email")
         /\ UNCHANGED <<store, today, export>>
    ELSE /\ nextId.client <= MaxClients
         /\ clients' = clients @@ (nextId.client :> Client(email, company))
         /\ nextId' = [nextId EXCEPT !.client = @ + 1]
         /\ result' = Saved
         /\ UNCHANGED <<projects, tasks, invoices, payments, expenses, notes,
                        files, today, export>>

UpdateClient(c, email, company) ==
    /\ c \in DOMAIN clients
    /\ IF EmailHeld(email, c)
       THEN /\ result' = Rejected("email")
            /\ UNCHANGED <<store, today, export>>
       ELSE /\ clients' = [clients EXCEPT ![c] = Client(email, company)]
            /\ result' = Saved
            /\ UNCHANGED <<projects, tasks, invoices, payments, expenses, notes,
                           files, nextId, today, export>>

(***************************************************************************)
(* Creating and updating the records that hold a foreign key.  A key that  *)
(* names no row is refused by the store.                                   *)
(***************************************************************************)
CreateProject(c, title, description) ==
    IF c \notin DOMAIN clients
    THEN /\ result' = Rejected("client")
         /\ UNCHANGED <<store, today, export>>
    ELSE /\ nextId.project <= MaxProjects
         /\ projects' = projects @@ (nextId.project :> Project(c, title, description))
         /\ nextId' = [nextId EXCEPT !.project = @ + 1]
         /\ result' = Saved
         /\ UNCHANGED <<clients, tasks, invoices, payments, expenses, notes,
                        files, today, export>>

UpdateProject(p, c, title, description) ==
    /\ p \in DOMAIN projects
    /\ IF c \notin DOMAIN clients
       THEN /\ result' = Rejected("client")
            /\ UNCHANGED <<store, today, export>>
       ELSE /\ projects' = [projects EXCEPT ![p] = Project(c, title, description)]
            /\ result' = Saved
            /\ UNCHANGED <<clients, tasks, invoices, payments, expenses, notes,
                           files, nextId, today, export>>

CreateTask(p, status, due_date) ==
    IF p \notin DOMAIN projects
    THEN /\ result' = Rejected("project")
         /\ UNCHANGED <<store, today, export>>
    ELSE /\ nextId.task <= MaxChildren
         /\ tasks' = tasks @@ (nextId.task :> Task(p, status, due_date))
         /\ nextId' = [nextId EXCEPT !.task = @ + 1]
         /\ result' = Saved
         /\ UNCHANGED <<clients, projects, invoices, payments, expenses, notes,
                        files, today, export>>

CreateInvoice(p, amount, status, inotes, due_date) ==
    IF p \notin DOMAIN projects
    THEN /\ result' = Rejected("project")
         /\ UNCHANGED <<store, today, export>>
    ELSE /\ nextId.invoice <= MaxInvoices
         /\ invoices' = invoices @@
                (nextId.invoice :> Invoice(p, amount, status, inotes, due_date))
         /\ nextId' = [nextId EXCEPT !.invoice = @ + 1]
         /\ result' = Saved
         /\ UNCHANGED <<clients, projects, tasks, payments, expenses, notes,
                        files, today, export>>

UpdateInvoice(i, p, amount, status, inotes, due_date) ==
    /\ i \in DOMAIN invoices
    /\ IF p \notin DOMAIN projects
       THEN /\ result' = Rejected("project")
            /\ UNCHANGED <<store, today, export>>
       ELSE /\ invoices' = [invoices EXCEPT
                               ![i] = Invoice(p, amount, status, inotes, due_date)]
            /\ result' = Saved
            /\ UNCHANGED <<clients, projects, tasks, payments, expenses, notes,
                           files, nextId, today, export>>

\* Fault variant: CreatePayment that also settles the status of the Invoice it pays.
CreatePaymentSettles(i, amount) ==
    IF i \notin DOMAIN invoices
    THEN /\ result' = Rejected("invoice")
         /\ UNCHANGED <<store, today, export>>
    ELSE /\ nextId.payment <= MaxChildren
         /\ payments' = payments @@ (nextId.payment :> Payment(i, amount))
         /\ invoices' = [invoices EXCEPT
                           ![i].status = IF amount >= invoices[i].amount
                                         THEN "Paid"
                                         ELSE "Partially Paid"]
         /\ nextId' = [nextId EXCEPT !.payment = @ + 1]
         /\ result' = Saved
         /\ UNCHANGED <<clients, projects, tasks, expenses, notes, files,
                        today, export>>

CreatePayment(i, amount) ==
    IF i \notin DOMAIN invoices
    THEN /\ result' = Rejected("invoice")
         /\ UNCHANGED <<store, today, export>>
    ELSE /\ nextId.payment <= MaxChildren
         /\ payments' = payments @@ (nextId.payment :> Payment(i, amount))
         /\ nextId' = [nextId EXCEPT !.payment = @ + 1]
         /\ result' = Saved
         /\ UNCHANGED <<clients, projects, tasks, invoices, expenses, notes,
                        files, today, export>>

UpdatePayment(pm, amount) ==
    /\ pm \in DOMAIN payments
    /\ payments' = [payments EXCEPT ![pm].amount = amount]
    /\ result' = Saved
    /\ UNCHANGED <<clients, projects, tasks, invoices, expenses, notes, files,
                   nextId, today, export>>

CreateExpense(p, amount) ==
    IF p /= None /\ p[1] \notin DOMAIN projects
    THEN /\ result' = Rejected("project")
         /\ UNCHANGED <<store, today, export>>
    ELSE /\ nextId.expense <= MaxChildren
         /\ expenses' = expenses @@ (nextId.expense :> Expense(p, amount))
         /\ nextId' = [nextId EXCEPT !.expense = @ + 1]
         /\ result' = Saved
         /\ UNCHANGED <<clients, projects, tasks, invoices, payments, notes,
                        files, today, export>>

CreateNote(p) ==
    IF p \notin DOMAIN projects
    THEN /\ result' = Rejected("project")
         /\ UNCHANGED <<store, today, export>>
    ELSE /\ nextId.note <= MaxChildren
         /\ notes' = notes @@ (nextId.note :> Note(p))
         /\ nextId' = [nextId EXCEPT !.note = @ + 1]
         /\ result' = Saved
         /\ UNCHANGED <<clients, projects, tasks, invoices, payments, expenses,
                        files, today, export>>

CreateProjectFile(p) ==
    IF p \notin DOMAIN projects
    THEN /\ result' = Rejected("project")
         /\ UNCHANGED <<store, today, export>>
    ELSE /\ nextId.file <= MaxChildren
         /\ files' = files @@ (nextId.file :> ProjectFile(p))
         /\ nextId' = [nextId EXCEPT !.file = @ + 1]
         /\ result' = Saved
         /\ UNCHANGED <<clients, projects, tasks, invoices, payments, expenses,
                        notes, today, export>>

(***************************************************************************)
(* Deleting.  Django collects the rows that reference the deleted rows     *)
(* through each ForeignKey and applies that key's on_delete rule, all in   *)
(* one transaction: CASCADE deletes the referencing rows (and what         *)
(* references them in turn), SET_NULL keeps them and clears the key.       *)
(***************************************************************************)
\* Fault variant: Project.client that does not cascade.
ProjectsKept(CS) == {}

ProjectsOfClients(CS) == {p \in DOMAIN projects : projects[p].client \in CS}

TasksOfProjects(PS) == {t \in DOMAIN tasks : tasks[t].project \in PS}

InvoicesOfProjects(PS) == {i \in DOMAIN invoices : invoices[i].project \in PS}

\* Fault variant: Payment.invoice that does not cascade.
PaymentsKept(IS) == {}

PaymentsOfInvoices(IS) == {pm \in DOMAIN payments : payments[pm].invoice \in IS}

NotesOfProjects(PS) == {n \in DOMAIN notes : notes[n].project \in PS}

FilesOfProjects(PS) == {f \in DOMAIN files : files[f].project \in PS}

ExpensesOfProjects(PS) ==
    {e \in DOMAIN expenses :
        expenses[e].project /= None /\ expenses[e].project[1] \in PS}

\* Fault variant: Expense.project with CASCADE in place of SET_NULL.
ExpensesCascade(PS) == Without(expenses, ExpensesOfProjects(PS))

ExpensesOnDelete(PS) ==
    [e \in DOMAIN expenses |->
        IF e \in ExpensesOfProjects(PS)
        THEN [expenses[e] EXCEPT !.project = None]
        ELSE expenses[e]]

Collect(op, CS, PS0, IS0) ==
    LET PS == PS0 \cup ProjectsOfClients(CS)
        IS == IS0 \cup InvoicesOfProjects(PS)
        PMS == PaymentsOfInvoices(IS)
        TS == TasksOfProjects(PS)
        NS == NotesOfProjects(PS)
        FS == FilesOfProjects(PS)
    IN  /\ clients' = Without(clients, CS)
        /\ projects' = Without(projects, PS)
        /\ invoices' = Without(invoices, IS)
        /\ payments' = Without(payments, PMS)
        /\ tasks' = Without(tasks, TS)
        /\ notes' = Without(notes, NS)
        /\ files' = Without(files, FS)
        /\ expenses' = ExpensesOnDelete(PS)
        /\ result' = Deleted(op,
                Cardinality(CS) + Cardinality(PS) + Cardinality(IS)
                  + Cardinality(PMS) + Cardinality(TS) + Cardinality(NS)
                  + Cardinality(FS),
                Cardinality(ExpensesOfProjects(PS)))
        /\ UNCHANGED <<nextId, today, export>>

DeleteClient(c) ==
    /\ c \in DOMAIN clients
    /\ Collect("DeleteClient", {c}, {}, {})

DeleteProject(p) ==
    /\ p \in DOMAIN projects
    /\ Collect("DeleteProject", {}, {p}, {})

DeleteInvoice(i) ==
    /\ i \in DOMAIN invoices
    /\ Collect("DeleteInvoice", {}, {}, {i})

DeletePayment(pm) ==
    /\ pm \in DOMAIN payments
    /\ payments' = Without(payments, {pm})
    /\ result' = Deleted("delete", 1, 0)
    /\ UNCHANGED <<clients, projects, tasks, invoices, expenses, notes, files,
                   nextId, today, export>>

DeleteTask(t) ==
    /\ t \in DOMAIN tasks
    /\ tasks' = Without(tasks, {t})
    /\ result' = Deleted("delete", 1, 0)
    /\ UNCHANGED <<clients, projects, invoices, payments, expenses, notes,
                   files, nextId, today, export>>

DeleteExpense(e) ==
    /\ e \in DOMAIN expenses
    /\ expenses' = Without(expenses, {e})
    /\ result' = Deleted("delete", 1, 0)
    /\ UNCHANGED <<clients, projects, tasks, invoices, payments, notes, files,
                   nextId, today, export>>

DeleteNote(n) ==
    /\ n \in DOMAIN notes
    /\ notes' = Without(notes, {n})
    /\ result' = Deleted("delete", 1, 0)
    /\ UNCHANGED <<clients, projects, tasks, invoices, payments, expenses,
                   files, nextId, today, export>>

DeleteProjectFile(f) ==
    /\ f \in DOMAIN files
    /\ files' = Without(files, {f})
    /\ result' = Deleted("delete", 1, 0)
    /\ UNCHANGED <<clients, projects, tasks, invoices, payments, expenses,
                   notes, nextId, today, export>>

(***************************************************************************)
(* Inputs the operator can type into the admin forms.                      *)
(***************************************************************************)
Emails == {"a@example.com", "b@example.com"}

Companies == {None, Some(""), Some("Acme Ltd")}

ClientIds == 1 .. MaxClients

ProjectIds == 1 .. MaxProjects

InvoiceIds == 1 .. MaxInvoices

ChildIds == 1 .. MaxChildren

(***************************************************************************)
(* The record store under the admin's create, re-parent and delete views.  *)
(***************************************************************************)
Next ==
    \/ \E e \in Emails : CreateClient(e, None)
    \/ \E c \in ClientIds : CreateProject(c, <<"W", "e", "b">>, None)
    \/ \E p \in ProjectIds, c \in ClientIds :
            UpdateProject(p, c, <<"W", "e", "b">>, None)
    \/ \E p \in ProjectIds : CreateTask(p, "Todo", None)
    \/ \E p \in ProjectIds :
            /\ nextId.invoice <= MaxChildren
            /\ CreateInvoice(p, 25050, "Unpaid", None, None)
    \/ \E i \in InvoiceIds : CreatePayment(i, 25050)
    \/ \E p \in ProjectIds : CreateExpense(Some(p), 100000)
    \/ CreateExpense(None, 100000)
    \/ \E p \in ProjectIds : CreateNote(p)
    \/ \E p \in ProjectIds : CreateProjectFile(p)
    \/ \E c \in ClientIds : DeleteClient(c)
    \/ \E p \in ProjectIds : DeleteProject(p)
    \/ \E i \in InvoiceIds : DeleteInvoice(i)
    \/ \E pm \in ChildIds : DeletePayment(pm)
    \/ \E t \in ChildIds : DeleteTask(t)
    \/ \E e \in ChildIds : DeleteExpense(e)
    \/ \E n \in ChildIds : DeleteNote(n)
    \/ \E f \in ChildIds : DeleteProjectFile(f)

Spec == Init /\ [][Next]_vars

(***************************************************************************)
(* Two Clients on file, each with a Project (created as Init allows),      *)
(* while Tasks, Invoices, Payments, Notes and ProjectFiles are added and   *)
(* Clients, Projects and Invoices are deleted.                             *)
(***************************************************************************)
InitCascade ==
    /\ clients = (1 :> Client("a@example.com", None)) @@
                 (2 :> Client("b@example.com", None))
    /\ \E c \in DOMAIN clients :
            projects = (1 :> Project(1, <<"W", "e", "b">>, None)) @@
                       (2 :> Project(c, <<"W", "e", "b">>, None))
    /\ tasks = Empty
    /\ invoices = Empty
    /\ payments = Empty
    /\ expenses = Empty
    /\ notes = Empty
    /\ files = Empty
    /\ nextId = [client |-> 3, project |-> 3, task |-> 1, invoice |-> 1,
                 payment |-> 1, expense |-> 1, note |-> 1, file |-> 1]
    /\ today = 0
    /\ result = Saved
    /\ export = Idle

NextCascade ==
    \/ \E p \in ProjectIds : CreateTask(p, "Todo", None)
    \/ \E p \in ProjectIds :
            /\ nextId.invoice <= MaxChildren
            /\ CreateInvoice(p, 25050, "Unpaid", None, None)
    \/ \E i \in InvoiceIds : CreatePayment(i, 25050)
    \/ \E p \in ProjectIds : CreateNote(p)
    \/ \E p \in ProjectIds : CreateProjectFile(p)
    \/ \E c \in ClientIds : DeleteClient(c)
    \/ \E p \in ProjectIds : DeleteProject(p)
    \/ \E i \in InvoiceIds : DeleteInvoice(i)

SpecCascade == InitCascade /\ [][NextCascade]_vars

(***************************************************************************)
(* Clients, their Projects and the Expenses booked on them (or on no       *)
(* Project), under the admin's create and delete views.                    *)
(***************************************************************************)
ExpenseAmounts == {1999, 100000}

NextExpenses ==
    \/ \E e \in Emails : CreateClient(e, None)
    \/ \E c \in ClientIds : CreateProject(c, <<"W", "e", "b">>, None)
    \/ \E p \in ProjectIds, a \in ExpenseAmounts : CreateExpense(Some(p), a)
    \/ \E a \in ExpenseAmounts : CreateExpense(None, a)
    \/ \E c \in ClientIds : DeleteClient(c)
    \/ \E p \in ProjectIds : DeleteProject(p)
    \/ \E e \in ChildIds : DeleteExpense(e)

SpecExpenses == Init /\ [][NextExpenses]_vars

(***************************************************************************)
(* ClientAdmin.total_invoiced: the Sum of amount over the Invoices joined  *)
(* to their Project on project.client = obj, formatted by '${total:,.2f}', *)
(* or '$0.00' when the aggregate is None (no row matched).                 *)
(***************************************************************************)
DigitChars == <<"0", "1", "2", "3", "4", "5", "6", "7", "8", "9">>

RECURSIVE Digits(_)
Digits(n) ==
    IF n < 10
    THEN <<DigitChars[n + 1]>>
    ELSE Digits(n \div 10) \o <<DigitChars[(n % 10) + 1]>>

RECURSIVE Grouped(_)
Grouped(ds) ==
    IF Len(ds) <= 3
    THEN ds
    ELSE Grouped(SubSeq(ds, 1, Len(ds) - 3)) \o <<",">>
            \o SubSeq(ds, Len(ds) - 2, Len(ds))

Abs(n) == IF n < 0 THEN 0 - n ELSE n

Sign(n) == IF n < 0 THEN <<"-">> ELSE <<>>

Cents(n) == <<".", DigitChars[((Abs(n) % 100) \div 10) + 1],
              DigitChars[(Abs(n) % 10) + 1]>>

FormatGrouped(total) ==
    <<"$">> \o Sign(total) \o Grouped(Digits(Abs(total) \div 100)) \o Cents(total)

RECURSIVE Sum(_)
Sum(S) ==
    IF S = {}
    THEN 0
    ELSE LET i == CHOOSE x \in S : TRUE
         IN  invoices[i].amount + Sum(S \ {i})

Aggregate(qs) == IF qs = {} THEN None ELSE Some(Sum(qs))

\* Fault variant: total_invoiced filtering on project in place of project__client.
total_invoiced_of_project(obj) ==
    LET total == Aggregate({i \in DOMAIN invoices : invoices[i].project = obj})
    IN  IF total /= None THEN FormatGrouped(total[1]) ELSE <<"$", "0", ".", "0", "0">>

total_invoiced(obj) ==
    LET total == Aggregate({i \in DOMAIN invoices :
                              /\ invoices[i].project \in DOMAIN projects
                              /\ projects[invoices[i].project].client = obj})
    IN  IF total /= None THEN FormatGrouped(total[1]) ELSE <<"$", "0", ".", "0", "0">>

(***************************************************************************)
(* The billing records under the admin's create, change and delete views   *)
(* of Client, Project and Invoice.                                         *)
(***************************************************************************)
BillingAmounts == {25050, 100000}

NextBilling ==
    \/ \E e \in Emails : CreateClient(e, None)
    \/ \E c \in ClientIds, e \in Emails : UpdateClient(c, e, None)
    \/ \E c \in ClientIds : CreateProject(c, <<"W", "e", "b">>, None)
    \/ \E p \in ProjectIds, c \in ClientIds :
            UpdateProject(p, c, <<"W", "e", "b">>, None)
    \/ \E p \in ProjectIds, a \in BillingAmounts :
            CreateInvoice(p, a, "Unpaid", None, None)
    \/ \E i \in InvoiceIds, p \in ProjectIds, a \in BillingAmounts :
            UpdateInvoice(i, p, a, "Unpaid", None, None)
    \/ \E c \in ClientIds : DeleteClient(c)
    \/ \E p \in ProjectIds : DeleteProject(p)
    \/ \E i \in InvoiceIds : DeleteInvoice(i)

SpecBilling == Init /\ [][NextBilling]_vars

(***************************************************************************)
(* InvoiceAdmin.export_as_pdf.  The action is handed a lazy queryset: the  *)
(* selected ids, filtered against the table each time it is evaluated.     *)
(* The admin runs the action outside any transaction, so each of its four  *)
(* reads of the store (count(), first(), invoice.project and               *)
(* invoice.project.client, the last two cached on first access) is a step  *)
(* of its own that other requests can interleave with.  An exception       *)
(* leaves the action before it returns a response.                         *)
(***************************************************************************)
Queryset(selected) == selected \cap DOMAIN invoices

First(qs) ==
    IF qs = {}
    THEN None
    ELSE LET pk == CHOOSE i \in qs : \A j \in qs : j <= i
         IN  Some([id |-> pk, project |-> invoices[pk].project,
                   amount |-> invoices[pk].amount,
                   status |-> invoices[pk].status,
                   notes |-> invoices[pk].notes,
                   due_date |-> invoices[pk].due_date])

\* Fault variant: the selection check accepting any non-empty selection.
AtLeastOne(count) == count >= 1

ExactlyOne(count) == count = 1

Raise(exception) ==
    [export EXCEPT !.pc = "done", !.error = exception, !.response = None]

\* Fault variant: replace() turning only the first space into an underscore.
ReplaceFirst(text) ==
    [k \in 1 .. Len(text) |->
        IF text[k] = " " /\ (\A j \in 1 .. (k - 1) : text[j] /= " ")
        THEN "_"
        ELSE text[k]]

Replace(text) ==
    [k \in 1 .. Len(text) |-> IF text[k] = " " THEN "_" ELSE text[k]]

Filename(invoice, project) ==
    <<"i", "n", "v", "o", "i", "c", "e", "_">> \o Digits(invoice.id) \o <<"_">>
        \o Replace(project.title) \o <<".", "p", "d", "f">>

DecimalStr(amount) ==
    Sign(amount) \o Digits(Abs(amount) \div 100) \o Cents(amount)

\* Fault variant: the amount printed without its decimal places.
MoneyWhole(amount) == <<"$">> \o Sign(amount) \o Digits(Abs(amount) \div 100)

Money(amount) == <<"$">> \o DecimalStr(amount)

\* Fault variant: the fallback taken only for NULL, not for the empty string.
OrNull(value, fallback) == IF value = None THEN fallback ELSE value[1]

Or(value, fallback) ==
    IF value = None \/ value[1] = "" THEN fallback ELSE value[1]

Document(invoice, project, client) ==
    [content_type |-> "application/pdf",
     filename |-> Filename(invoice, project),
     number |-> invoice.id,
     due_date |-> invoice.due_date,
     billed_company |-> Or(client.company, "Individual"),
     billed_email |-> client.email,
     project_title |-> project.title,
     status |-> invoice.status,
     description |-> Or(project.description, "Project service fee."),
     qty |-> "1",
     unit_price |-> Money(invoice.amount),
     amount |-> Money(invoice.amount),
     total |-> Money(invoice.amount),
     notes |-> Or(invoice.notes, "Thank you for your business!"),
     current_status |-> invoice.status]

export_as_pdf(selected) ==
    /\ export.pc \in {"idle", "done"}
    /\ LET count == Cardinality(Queryset(selected))
       IN  IF ~ExactlyOne(count)
           THEN export' = [Idle EXCEPT
                             !.pc = "done", !.selected = selected,
                             !.count = count,
                             !.message = "Please select exactly one invoice to print."]
           ELSE export' = [Idle EXCEPT
                             !.pc = "first", !.selected = selected,
                             !.count = count]
    /\ UNCHANGED <<store, today, result>>

export_first ==
    /\ export.pc = "first"
    /\ LET invoice == First(Queryset(export.selected))
       IN  IF invoice = None
           THEN export' = Raise("AttributeError")
           ELSE export' = [export EXCEPT !.pc = "project", !.invoice = invoice]
    /\ UNCHANGED <<store, today, result>>

\* Fault variant: invoice.project read without raising when the row is gone.
export_project_unchecked ==
    /\ export.pc = "project"
    /\ LET p == export.invoice[1].project
       IN  IF p \notin DOMAIN projects
           THEN export' = [export EXCEPT
                             !.pc = "client",
                             !.project = Some([id |-> p, client |-> 0,
                                               title |-> <<>>,
                                               description |-> None])]
           ELSE export' = [export EXCEPT
                             !.pc = "client",
                             !.project = Some([id |-> p,
                                               client |-> projects[p].client,
                                               title |-> projects[p].title,
                                               description |-> projects[p].description])]
    /\ UNCHANGED <<store, today, result>>

export_project ==
    /\ export.pc = "project"
    /\ LET p == export.invoice[1].project
       IN  IF p \notin DOMAIN projects
           THEN export' = Raise("Project.DoesNotExist")
           ELSE export' = [export EXCEPT
                             !.pc = "client",
                             !.project = Some([id |-> p,
                                               client |-> projects[p].client,
                                               title |-> projects[p].title,
                                               description |-> projects[p].description])]
    /\ UNCHANGED <<store, today, result>>

export_render ==
    /\ export.pc = "client"
    /\ LET c == export.project[1].client
       IN  IF c \notin DOMAIN clients
           THEN export' = Raise("Client.DoesNotExist")
           ELSE LET client == [id |-> c, email |-> clients[c].email,
                               company |-> clients[c].company]
                IN  export' = [export EXCEPT
                                 !.pc = "done",
                                 !.client = Some(client),
                                 !.response = Some(Document(export.invoice[1],
                                                            export.project[1],
                                                            client))]
    /\ UNCHANGED <<store, today, result>>

(***************************************************************************)
(* One operator exporting the Invoices of a Project that is on file (one   *)
(* Client and one Project, created as Init allows, with any company, title *)
(* and description) while other requests create Invoices and delete the    *)
(* Client, the Project or Invoices.                                        *)
(***************************************************************************)
ProjectInputs ==
    {<<<<"W", "e", "b">>, None>>,
     <<<<"M", "y", " ", "B", "i", "g", " ", "A", "p", "p">>, Some("")>>,
     <<<<"M", "y", " ", "B", "i", "g", " ", "A", "p", "p">>, Some("Site redesign")>>}

InvoiceInputs ==
    {<<25050, None>>, <<100000, Some("")>>, <<5, Some("Net 30")>>}

Created == 1 .. (nextId.invoice - 1)

InitExport ==
    \E co \in Companies, in \in ProjectInputs :
        /\ clients = (1 :> Client("a@example.com", co))
        /\ projects = (1 :> Project(1, in[1], in[2]))
        /\ tasks = Empty
        /\ invoices = Empty
        /\ payments = Empty
        /\ expenses = Empty
        /\ notes = Empty
        /\ files = Empty
        /\ nextId = [client |-> 2, project |-> 2, task |-> 1, invoice |-> 1,
                     payment |-> 1, expense |-> 1, note |-> 1, file |-> 1]
        /\ today = 0
        /\ result = Saved
        /\ export = Idle

NextExport ==
    \/ \E p \in ProjectIds, in \in InvoiceInputs :
            CreateInvoice(p, in[1], "Unpaid", in[2], None)
    \/ \E c \in ClientIds : DeleteClient(c)
    \/ \E p \in ProjectIds : DeleteProject(p)
    \/ \E i \in InvoiceIds : DeleteInvoice(i)
    \/ \E selected \in SUBSET Created : export_as_pdf(selected)
    \/ export_first
    \/ export_project
    \/ export_render

SpecExport == InitExport /\ [][NextExport]_vars

(***************************************************************************)
(* The calendar: timezone.localdate() moves on to the next day.            *)
(***************************************************************************)
Tick ==
    /\ today < MaxDay
    /\ today' = today + 1
    /\ UNCHANGED <<store, result, export>>

(***************************************************************************)
(* The Invoices of a Project that is on file (one Client, one Project)     *)
(* while Payments are recorded, changed and removed, statuses are set by   *)
(* hand, days pass and Invoices are exported.                              *)
(***************************************************************************)
PaymentAmounts == {5, 25050}

SetInvoiceStatus(i, status) ==
    /\ i \in DOMAIN invoices
    /\ UpdateInvoice(i, invoices[i].project, invoices[i].amount, status,
                     invoices[i].notes, invoices[i].due_date)

InitStatus ==
    /\ clients = (1 :> Client("a@example.com", None))
    /\ projects = (1 :> Project(1, <<"W", "e", "b">>, None))
    /\ tasks = Empty
    /\ invoices = Empty
    /\ payments = Empty
    /\ expenses = Empty
    /\ notes = Empty
    /\ files = Empty
    /\ nextId = [client |-> 2, project |-> 2, task |-> 1, invoice |-> 1,
                 payment |-> 1, expense |-> 1, note |-> 1, file |-> 1]
    /\ today = 0
    /\ result = Saved
    /\ export = Idle

NextStatus ==
    \/ \E p \in ProjectIds :
            /\ nextId.invoice <= MaxChildren
            /\ CreateInvoice(p, 25050, "Unpaid", None, Some(1))
    \/ \E i \in InvoiceIds, status \in InvoiceStatuses : SetInvoiceStatus(i, status)
    \/ \E i \in InvoiceIds, a \in PaymentAmounts : CreatePayment(i, a)
    \/ \E pm \in ChildIds, a \in PaymentAmounts : UpdatePayment(pm, a)
    \/ \E pm \in ChildIds : DeletePayment(pm)
    \/ \E i \in InvoiceIds : DeleteInvoice(i)
    \/ Tick
    \/ \E selected \in SUBSET Created : export_as_pdf(selected)
    \/ export_first
    \/ export_project
    \/ export_render

SpecStatus == InitStatus /\ [][NextStatus]_vars

(***************************************************************************)
(* The changelist pages.  ClientAdmin lists every Client with the columns  *)
(* project_count and total_invoiced; TaskAdmin lists every Task with the   *)
(* column is_overdue.  Each column is a method called once per row with    *)
(* the row's object; what the page shows is reported, nothing is saved.    *)
(***************************************************************************)
Shown(op, rows) ==
    [op |-> op, status |-> "ok", field |-> "", deleted |-> 0, cleared |-> 0,
     rows |-> rows]

\* Fault variant: a counter of the Projects ever saved, not recomputed from the rows.
project_count_ever(obj) == nextId.project - 1

project_count(obj) ==
    Cardinality({p \in DOMAIN projects : projects[p].client = obj})

\* Fault variant: a Task due today already counts as overdue.
is_overdue_through_today(obj) ==
    IF /\ tasks[obj].status /= "Done"
       /\ tasks[obj].due_date /= None
       /\ tasks[obj].due_date[1] <= today
    THEN TRUE
    ELSE FALSE

is_overdue(obj) ==
    IF /\ tasks[obj].status /= "Done"
       /\ tasks[obj].due_date /= None
       /\ tasks[obj].due_date[1] < today
    THEN TRUE
    ELSE FALSE

ClientChangelist ==
    /\ result' = Shown("ClientAdmin",
                       [obj \in DOMAIN clients |->
                           [project_count |-> project_count(obj),
                            total_invoiced |-> total_invoiced(obj)]])
    /\ UNCHANGED <<store, today, export>>

TaskChangelist ==
    /\ result' = Shown("TaskAdmin",
                       [obj \in DOMAIN tasks |-> [is_overdue |-> is_overdue(obj)]])
    /\ UNCHANGED <<store, today, export>>

(***************************************************************************)
(* Two Clients on file (created as Init allows) whose Projects, Invoices   *)
(* and Tasks are created, changed and deleted while the changelists are    *)
(* viewed and Invoices are exported, on a day after the Tasks' due date.   *)
(***************************************************************************)
InitRead ==
    /\ clients = (1 :> Client("a@example.com", None)) @@
                 (2 :> Client("b@example.com", None))
    /\ projects = Empty
    /\ tasks = Empty
    /\ invoices = Empty
    /\ payments = Empty
    /\ expenses = Empty
    /\ notes = Empty
    /\ files = Empty
    /\ nextId = [client |-> 3, project |-> 1, task |-> 1, invoice |-> 1,
                 payment |-> 1, expense |-> 1, note |-> 1, file |-> 1]
    /\ today = MaxDay
    /\ result = Saved
    /\ export = Idle

NextRead ==
    \/ \E c \in ClientIds :
            /\ nextId.project <= MaxChildren
            /\ CreateProject(c, <<"W", "e", "b">>, None)
    \/ \E p \in ProjectIds, c \in ClientIds :
            UpdateProject(p, c, <<"W", "e", "b">>, None)
    \/ \E p \in ProjectIds :
            /\ nextId.invoice <= MaxChildren
            /\ CreateInvoice(p, 25050, "Unpaid", None, None)
    \/ \E i \in DOMAIN invoices, a \in BillingAmounts :
            UpdateInvoice(i, invoices[i].project, a, "Unpaid", None, None)
    \/ \E p \in ProjectIds : CreateTask(p, "Todo", Some(1))
    \/ \E c \in ClientIds : DeleteClient(c)
    \/ \E p \in ProjectIds : DeleteProject(p)
    \/ \E i \in InvoiceIds : DeleteInvoice(i)
    \/ ClientChangelist
    \/ TaskChangelist
    \/ \E selected \in SUBSET Created : export_as_pdf(selected)
    \/ export_first
    \/ export_project
    \/ export_render

SpecRead == InitRead /\ [][NextRead]_vars

(***************************************************************************)
(* TaskAdmin's change of a Task: list_editable lets the changelist save    *)
(* status and due_date of a listed row; nothing else is derived or set.    *)
(***************************************************************************)
UpdateTask(t, status, due_date) ==
    /\ t \in DOMAIN tasks
    /\ tasks' = [tasks EXCEPT ![t].status = status, ![t].due_date = due_date]
    /\ result' = Saved
    /\ UNCHANGED <<clients, projects, invoices, payments, expenses, notes,
                   files, nextId, today, export>>

(***************************************************************************)
(* The Tasks of a Project that is on file (one Client, one Project) while  *)
(* they are added, edited and deleted, the Project or its Client is        *)
(* deleted, days pass and the Task changelist is viewed.                   *)
(***************************************************************************)
TaskDueDates == {None, Some(1), Some(2)}

NextTasks ==
    \/ \E p \in ProjectIds, status \in TaskStatuses, due_date \in TaskDueDates :
            CreateTask(p, status, due_date)
    \/ \E t \in ChildIds, status \in TaskStatuses, due_date \in TaskDueDates :
            UpdateTask(t, status, due_date)
    \/ \E t \in ChildIds : DeleteTask(t)
    \/ \E p \in ProjectIds : DeleteProject(p)
    \/ \E c \in ClientIds : DeleteClient(c)
    \/ Tick
    \/ TaskChangelist

SpecTasks == InitStatus /\ [][NextTasks]_vars

(***************************************************************************)
(* Every table under the admin's add, change and delete views, from the    *)
(* empty store, with at most MaxRows rows ever added below the Projects    *)
(* (Tasks, Invoices, Payments, Expenses, Notes and ProjectFiles together). *)
(***************************************************************************)
MaxRows == 2

ChildRows ==
    (nextId.task - 1) + (nextId.invoice - 1) + (nextId.payment - 1) +
    (nextId.expense - 1) + (nextId.note - 1) + (nextId.file - 1)

NextIntegrity ==
    \/ \E e \in Emails :
            CreateClient(e, None)
    \/ \E c \in ClientIds :
            /\ nextId.project <= MaxChildren
            /\ CreateProject(c, <<"W", "e", "b">>, None)
    \/ \E p \in ProjectIds, c \in ClientIds :
            UpdateProject(p, c, <<"W", "e", "b">>, None)
    \/ /\ ChildRows < MaxRows
       /\ \/ \E p \in ProjectIds : CreateTask(p, "Todo", None)
          \/ \E p \in ProjectIds :
                /\ nextId.invoice <= MaxChildren
                /\ CreateInvoice(p, 25050, "Unpaid", None, None)
          \/ \E i \in InvoiceIds : CreatePayment(i, 25050)
          \/ \E p \in ProjectIds : CreateExpense(Some(p), 100000)
          \/ CreateExpense(None, 100000)
          \/ \E p \in ProjectIds : CreateNote(p)
          \/ \E p \in ProjectIds : CreateProjectFile(p)
    \/ \E c \in ClientIds : DeleteClient(c)
    \/ \E p \in ProjectIds : DeleteProject(p)
    \/ \E i \in InvoiceIds : DeleteInvoice(i)
    \/ \E pm \in ChildIds : DeletePayment(pm)
    \/ \E t \in ChildIds : DeleteTask(t)
    \/ \E e \in ChildIds : DeleteExpense(e)
    \/ \E n \in ChildIds : DeleteNote(n)
    \/ \E f \in ChildIds : DeleteProjectFile(f)

SpecIntegrity == Init /\ [][NextIntegrity]_vars

\* A table after a step: the doomed rows gone, every other row as it was.
C1_Gone(table, table2, doomed) ==
    \A x \in DOMAIN table :
        IF x \in doomed
        THEN x \notin DOMAIN table2
        ELSE x \in DOMAIN table2 /\ table2[x] = table[x]

(***************************************************************************)
(* C1.  Deleting a Client removes, in the same step, every Project of that *)
(* Client, every Task, Invoice, Note and ProjectFile of those Projects and *)
(* every Payment of those Invoices, and removes or changes no Client,      *)
(* Project, Task, Invoice, Payment, Note or ProjectFile of another Client. *)
(***************************************************************************)
C1_ClientDeleteCascades ==
    [][\A c \in DOMAIN clients :
          c \notin DOMAIN clients' =>
            LET PS == {p \in DOMAIN projects : projects[p].client = c}
                IS == {i \in DOMAIN invoices : invoices[i].project \in PS}
            IN  /\ C1_Gone(clients, clients', {c})
                /\ C1_Gone(projects, projects', PS)
                /\ C1_Gone(tasks, tasks',
                           {t \in DOMAIN tasks : tasks[t].project \in PS})
                /\ C1_Gone(invoices, invoices', IS)
                /\ C1_Gone(payments, payments',
                           {pm \in DOMAIN payments : payments[pm].invoice \in IS})
                /\ C1_Gone(notes, notes',
                           {n \in DOMAIN notes : notes[n].project \in PS})
                /\ C1_Gone(files, files',
                           {f \in DOMAIN files : files[f].project \in PS})
                /\ \A p \in DOMAIN projects' : projects'[p].client /= c
                /\ \A t \in DOMAIN tasks' : tasks'[t].project \notin PS
                /\ \A i \in DOMAIN invoices' : invoices'[i].project \notin PS
                /\ \A n \in DOMAIN notes' : notes'[n].project \notin PS
                /\ \A f \in DOMAIN files' : files'[f].project \notin PS
                /\ \A pm \in DOMAIN payments' : payments'[pm].invoice \notin IS
      ]_vars

C1_Witness ==
    /\ result.op = "DeleteClient"
    /\ result.deleted = 7
    /\ Cardinality(DOMAIN clients) = 1
    /\ Cardinality(DOMAIN projects) = 1
    /\ nextId.task = 2 /\ tasks = Empty
    /\ nextId.invoice = 2 /\ invoices = Empty
    /\ nextId.payment = 2 /\ payments = Empty
    /\ nextId.note = 2 /\ notes = Empty
    /\ nextId.file = 2 /\ files = Empty

(***************************************************************************)
(* C2.  A step that deletes Projects (directly or through the cascade      *)
(* from their Client) deletes no Expense: an Expense of a deleted Project  *)
(* stays with its project cleared and its other fields as they were, and   *)
(* every other Expense is untouched.                                       *)
(***************************************************************************)
C2_ExpensesSurviveProjectDelete ==
    [][LET gone == (DOMAIN projects) \ (DOMAIN projects')
       IN  gone /= {} =>
             \A e \in DOMAIN expenses :
                /\ e \in DOMAIN expenses'
                /\ expenses'[e] =
                     IF expenses[e].project /= None /\ expenses[e].project[1] \in gone
                     THEN [project |-> None, amount |-> expenses[e].amount]
                     ELSE expenses[e]
      ]_vars

C2_Witness ==
    /\ result.op = "DeleteClient"
    /\ result.cleared = 1
    /\ \E e \in DOMAIN expenses : expenses[e] = Expense(None, 100000)
    /\ projects /= Empty

\* A refused export: the message, no response, nothing read.
C3_Refused ==
    /\ export.pc = "done"
    /\ export.response = None
    /\ export.message = "Please select exactly one invoice to print."
    /\ export.error = ""
    /\ export.invoice = None
    /\ export.project = None
    /\ export.client = None

(***************************************************************************)
(* C3.  export_as_pdf called with a selection that holds no Invoice or two *)
(* or more returns no response, reports "Please select exactly one invoice *)
(* to print." and reads no Invoice, Project or Client to render.           *)
(***************************************************************************)
C3_RefusesOtherThanOne ==
    /\ []((export.pc /= "idle" /\ export.count /= 1) => C3_Refused)
    /\ [][(export.pc \in {"idle", "done"} /\ export' /= export) =>
             /\ export'.count = Cardinality(export'.selected \cap DOMAIN invoices)
             /\ export'.count /= 1 => export'.pc = "done"
         ]_vars

C3_Witness ==
    /\ C3_Refused
    /\ export.count = 2
    /\ export.selected = DOMAIN invoices

ReadDigit(ch) == CHOOSE d \in 0 .. 9 : DigitChars[d + 1] = ch

RECURSIVE ReadCents(_, _)
ReadCents(text, acc) ==
    IF text = <<>>
    THEN acc
    ELSE IF Head(text) \in {"$", ",", "."}
         THEN ReadCents(Tail(text), acc)
         ELSE ReadCents(Tail(text), 10 * acc + ReadDigit(Head(text)))

RECURSIVE C5_Owed(_, _)
C5_Owed(c, i) ==
    IF i = 0
    THEN 0
    ELSE C5_Owed(c, i - 1) +
           (IF /\ i \in DOMAIN invoices
               /\ \E p \in DOMAIN projects :
                     invoices[i].project = p /\ projects[p].client = c
            THEN invoices[i].amount
            ELSE 0)

(***************************************************************************)
(* C5.  For every Client, total_invoiced(client) reads as the exact sum of *)
(* amount over exactly the Invoices whose Project belongs to that Client,  *)
(* and is '$0.00' (never an absent value) when the Client has none.        *)
(***************************************************************************)
C5_TotalInvoicedExact ==
    \A c \in DOMAIN clients :
        /\ total_invoiced(c) /= None
        /\ Head(total_invoiced(c)) = "$"
        /\ ReadCents(total_invoiced(c), 0) = C5_Owed(c, nextId.invoice - 1)
        /\ (\A i \in DOMAIN invoices, p \in DOMAIN projects :
                invoices[i].project = p => projects[p].client /= c)
              => total_invoiced(c) = <<"$", "0", ".", "0", "0">>

C5_Witness ==
    \E c \in DOMAIN clients, d \in DOMAIN clients :
        /\ c /= d
        /\ total_invoiced(c) = <<"$", "1", ",", "2", "5", "0", ".", "5", "0">>
        /\ total_invoiced(d) = <<"$", "0", ".", "0", "0">>
        /\ Cardinality(ProjectsOfClients({c})) = 2
        /\ \A p \in ProjectsOfClients({c}) :
              Cardinality(InvoicesOfProjects({p})) = 1

(***************************************************************************)
(* C6.  No two Clients ever hold the same email, and a create or update    *)
(* that would give a Client an email another Client holds is rejected and  *)
(* leaves the store as it was.                                             *)
(***************************************************************************)
C6_EmailUnique ==
    /\ [](\A c \in DOMAIN clients, d \in DOMAIN clients :
              c /= d => clients[c].email /= clients[d].email)
    /\ [][\A e \in Emails, co \in Companies :
             /\ (EmailHeld(e, 0) /\ CreateClient(e, co))
                   => (result' = Rejected("email") /\ UNCHANGED store)
             /\ \A c \in DOMAIN clients :
                   (EmailHeld(e, c) /\ UpdateClient(c, e, co))
                      => (result' = Rejected("email") /\ UNCHANGED store)
         ]_vars

C6_Witness ==
    /\ result = Rejected("email")
    /\ Cardinality(DOMAIN clients) = 2
    /\ \E c \in DOMAIN clients : clients[c].email = "a@example.com"
    /\ \E c \in DOMAIN clients : clients[c].email = "b@example.com"

C7_Failed(exception) ==
    /\ export'.pc = "done"
    /\ export'.response = None
    /\ export'.error = exception

C7_Complete ==
    /\ export.error = ""
    /\ export.invoice /= None /\ export.project /= None /\ export.client /= None
    /\ export.project[1].id = export.invoice[1].project
    /\ export.client[1].id = export.project[1].client
    /\ export.response[1].number = export.invoice[1].id
    /\ export.response[1].status = export.invoice[1].status
    /\ export.response[1].project_title = export.project[1].title
    /\ export.response[1].project_title /= <<>>
    /\ export.response[1].billed_email = export.client[1].email
    /\ export.response[1].billed_company /= ""
    /\ export.response[1].description /= ""
    /\ export.response[1].notes /= ""
    /\ ReadCents(export.response[1].total, 0) = export.invoice[1].amount

C8_StatusOnlyWrittenExplicitly ==
    [][\A i \in (DOMAIN invoices) \cap (DOMAIN invoices') :
          invoices'[i].status /= invoices[i].status =>
             /\ UpdateInvoice(i, invoices'[i].project, invoices'[i].amount,
                              invoices'[i].status, invoices'[i].notes,
                              invoices'[i].due_date)
             /\ UNCHANGED <<payments, today, export>>
      ]_vars

C8_Witness ==
    \E i \in DOMAIN invoices :
        /\ invoices[i].status = "Unpaid"
        /\ invoices[i].due_date = Some(1)
        /\ today = 2
        /\ \E pm \in DOMAIN payments :
              /\ payments[pm].invoice = i
              /\ payments[pm].amount >= invoices[i].amount
        /\ export.pc = "done"
        /\ export.response /= None
        /\ export.response[1].number = i
        /\ export.response[1].status = "Unpaid"

\* A printed amount: '$', digits, '.', two digits.
C9_TwoPlaces(text) ==
    /\ Len(text) >= 5
    /\ Head(text) = "$"
    /\ text[Len(text) - 2] = "."
    /\ \A k \in 2 .. Len(text) :
          k /= Len(text) - 2 => \E d \in 1 .. 10 : text[k] = DigitChars[d]

(***************************************************************************)
(* C9.  In every document returned, unit price, line amount and TOTAL are  *)
(* the same text: '$', then the amount of the Invoice that was read, with  *)
(* exactly two decimal places; the quantity is '1'.                        *)
(***************************************************************************)
C9_LineItemEqualsAmount ==
    export.response /= None =>
        LET doc == export.response[1]
        IN  /\ doc.qty = "1"
            /\ doc.unit_price = doc.amount
            /\ doc.amount = doc.total
            /\ C9_TwoPlaces(doc.total)
            /\ ReadCents(doc.total, 0) = export.invoice[1].amount

C9_Witness ==
    /\ export.response /= None
    /\ export.invoice[1].amount = 100000
    /\ export.response[1].total = <<"$", "1", "0", "0", "0", ".", "0", "0">>
    /\ export.response[1].unit_price = export.response[1].total

\* A field with nothing in it, and what the document shows for a field.
C10_Absent(value) == value = None \/ value = Some("")

C10_Shown(value, literal) == IF C10_Absent(value) THEN literal ELSE value[1]

(***************************************************************************)
(* C10.  A document shows the fallback literal exactly when the field is   *)
(* absent (NULL, or the empty string a blank form field is saved as) and   *)
(* the field's own text otherwise: 'Project service fee.' for the Project  *)
(* description, 'Thank you for your business!' for the Invoice notes,      *)
(* 'Individual' for the Client company.                                    *)
(***************************************************************************)
C10_FallbackLiterals ==
    export.response /= None =>
        LET doc == export.response[1]
        IN  /\ doc.description =
                  C10_Shown(export.project[1].description, "Project service fee.")
            /\ doc.notes =
                  C10_Shown(export.invoice[1].notes, "Thank you for your business!")
            /\ doc.billed_company =
                  C10_Shown(export.client[1].company, "Individual")

C10_Witness ==
    /\ export.response /= None
    /\ export.project[1].description = Some("Site redesign")
    /\ export.response[1].description = "Site redesign"
    /\ export.invoice[1].notes = Some("")
    /\ export.response[1].notes = "Thank you for your business!"
    /\ export.client[1].company = None
    /\ export.response[1].billed_company = "Individual"

\* The Projects of a Client, counted row by row over the ids handed out so far.
RECURSIVE C11_Projects(_, _)
C11_Projects(c, p) ==
    IF p = 0
    THEN 0
    ELSE C11_Projects(c, p - 1) +
           (IF p \in DOMAIN projects /\ projects[p].client = c THEN 1 ELSE 0)

(***************************************************************************)
(* C11.  Viewing the Client changelist (project_count, total_invoiced),    *)
(* viewing the Task changelist (is_overdue) and every step of              *)
(* export_as_pdf, refused or not, leave every record and the calendar as   *)
(* they were; and whatever the Client changelist shows is what the records *)
(* of that moment give: one row per Client on file, with the number of its *)
(* Projects and the sum of its Invoices as they are now, whatever was      *)
(* created, changed or deleted since an earlier view.                      *)
(***************************************************************************)
C11_ReadsArePure ==
    /\ [](result.op = "ClientAdmin" =>
            /\ DOMAIN result.rows = DOMAIN clients
            /\ \A c \in DOMAIN clients :
                 /\ result.rows[c].project_count =
                        C11_Projects(c, nextId.project - 1)
                 /\ ReadCents(result.rows[c].total_invoiced, 0) =
                        C5_Owed(c, nextId.invoice - 1))
    /\ [](result.op = "TaskAdmin" => DOMAIN result.rows = DOMAIN tasks)
    /\ [][(\/ result'.op \in {"ClientAdmin", "TaskAdmin"} /\ result' /= result
           \/ export' /= export)
             => store' = store /\ today' = today
         ]_vars

C11_Witness ==
    /\ result.op = "ClientAdmin"
    /\ \E c \in DOMAIN clients, d \in DOMAIN clients :
          /\ result.rows[c] =
               [project_count |-> 1,
                total_invoiced |-> <<"$", "1", ",", "0", "0", "0", ".", "0", "0">>]
          /\ result.rows[d] =
               [project_count |-> 0,
                total_invoiced |-> <<"$", "0", ".", "0", "0">>]
    /\ export.pc = "done"
    /\ export.response /= None
    /\ tasks /= Empty

(***************************************************************************)
(* C12.  For every Task on file and every current date, is_overdue(task)   *)
(* is true exactly when the status is not 'Done' and the due_date is set   *)
(* and strictly earlier than the current date: it is false for a Task with *)
(* no due_date, for a Task due today or later and for a 'Done' Task.  The  *)
(* Task changelist shows that value for each Task, and neither viewing it  *)
(* nor the passing of a day changes any Task: a Task holds only the fields *)
(* that were saved, its status one of Todo, In Progress and Done.          *)
(***************************************************************************)
C12_OverdueIffOpenAndPastDue ==
    /\ [](\A t \in DOMAIN tasks :
            /\ tasks[t].due_date = None => is_overdue(t) = FALSE
            /\ tasks[t].status = "Done" => is_overdue(t) = FALSE
            /\ (tasks[t].due_date /= None /\ tasks[t].due_date[1] >= today)
                  => is_overdue(t) = FALSE
            /\ (/\ tasks[t].status \in {"Todo", "In Progress"}
                /\ tasks[t].due_date /= None
                /\ tasks[t].due_date[1] + 1 <= today)
                  => is_overdue(t) = TRUE
            /\ DOMAIN tasks[t] = {"project", "status", "due_date"}
            /\ tasks[t].status \in {"Todo", "In Progress", "Done"})
    /\ [][(result'.op = "TaskAdmin" /\ result' /= result) =>
             /\ tasks' = tasks
             /\ DOMAIN result'.rows = DOMAIN tasks
             /\ \A t \in DOMAIN tasks :
                   result'.rows[t].is_overdue = is_overdue(t)
         ]_vars
    /\ [][today' /= today => tasks' = tasks]_vars

C12_Witness ==
    /\ today = 2
    /\ result.op = "TaskAdmin"
    /\ \E t \in DOMAIN tasks :
          /\ tasks[t].status = "In Progress"
          /\ tasks[t].due_date = Some(1)
          /\ result.rows[t].is_overdue = TRUE

(***************************************************************************)
(* C13.  In every reachable state every Project names a Client on file,    *)
(* every Task, Invoice, Note and ProjectFile names a Project on file,      *)
(* every Payment names an Invoice on file and every Expense names a        *)
(* Project on file or none: no create, change or delete of any of the      *)
(* eight kinds of record leaves a reference to a row that is gone.         *)
(***************************************************************************)
C13_ReferentialIntegrity ==
    /\ \A p \in DOMAIN projects : projects[p].client \in DOMAIN clients
    /\ \A t \in DOMAIN tasks : tasks[t].project \in DOMAIN projects
    /\ \A i \in DOMAIN invoices : invoices[i].project \in DOMAIN projects
    /\ \A n \in DOMAIN notes : notes[n].project \in DOMAIN projects
    /\ \A f \in DOMAIN files : files[f].project \in DOMAIN projects
    /\ \A pm \in DOMAIN payments : payments[pm].invoice \in DOMAIN invoices
    /\ \A e \in DOMAIN expenses :
          \/ expenses[e].project = None
          \/ expenses[e].project[1] \in DOMAIN projects

C13_Witness ==
    /\ result.op = "DeleteClient"
    /\ result.deleted = 3
    /\ result.cleared = 1
    /\ clients /= Empty
    /\ projects = Empty
    /\ \E e \in DOMAIN expenses : expenses[e].project = None

====
